---- MODULE Spec2Model ----
(***************************************************************************)
(* Model of homeassistant/config_manager.py: the ConfigManager that drives *)
(* configuration flows (async_configure), keeps the committed entries and  *)
(* the flows in progress, and persists the entries through a debounced     *)
(* save (async_schedule_save, _async_save) and async_load.                 *)
(*                                                                         *)
(* async_configure is a generator with one suspension point (the           *)
(* `yield from` of the step, line 133): it is modelled as two actions,     *)
(* ConfigureBegin (lines 108-133, up to the dispatch of the step) and      *)
(* ConfigureResume (lines 133-153, from the step's outcome on).  Several   *)
(* calls may be suspended at once; the event loop resumes them in any      *)
(* order.                                                                  *)
(***************************************************************************)
EXTENDS Integers, Sequences, FiniteSets, TLC

\* ------------------------------------------------------------- bounds
\* handler instances constructed, steps dispatched, calls suspended at once,
\* direct async_schedule_save calls, length of a sample entry list
MaxFlows == 2
MaxCalls == 3
MaxPending == 2
MaxSched == 3
MaxEntries == 2
\* length of an entry list that async_domains and async_entries are asked about
MaxList == 5

\* ---------------------------------------------------- program constants
None == "None"
NoFlowId == 0
NoTimer == 0
SOURCE_USER == "user"
SOURCE_DISCOVERY == "discovery"
RESULT_TYPE_FORM == "form"
RESULT_TYPE_CREATE_ENTRY == "create_entry"
RESULT_TYPE_ABORT == "abort"

\* The handler classes the domains supply.  TestFlow declares version 5 and
\* the steps init and second; DiscoveryFlow keeps the base class's version,
\* overrides the source and has the init step only.
HandlerClasses ==
    [ TestFlow |-> [version |-> 5, source |-> SOURCE_USER,
                    steps |-> {"init", "second"}, title |-> "Test Title"],
      DiscoveryFlow |-> [version |-> 0, source |-> SOURCE_DISCOVERY,
                    steps |-> {"init"}, title |-> "Test 2 Title"] ]

\* HANDLERS, the registry: domain -> handler class.
HANDLERS == [test |-> "TestFlow", test2 |-> "DiscoveryFlow"]

\* The inputs of async_configure.  The modelled steps do not read their input
\* (as the step of test_configure_reuses_handler_instance), so one value stands
\* for all.
Domains == {"test", "test2", "unregistered"}
StepIds == {"init", "second"}
UserInputs == {None}
Outcomes == {RESULT_TYPE_FORM, RESULT_TYPE_CREATE_ENTRY, RESULT_TYPE_ABORT, "raise"}

\* ------------------------------------------------------------ state
VARIABLES
    entries,      \* ConfigManager.entries: the committed ConfigEntry list
    progress,     \* ConfigManager.progress: flow_id -> handler instance
    _sched_save,  \* ConfigManager._sched_save: the stored timer handle
    instances,    \* the handler instances constructed so far (the heap)
    calls,        \* the async_configure calls suspended in their step
    armed,        \* the loop's timers that are armed (not fired, not cancelled)
    timers,       \* number of timer handles call_later has created
    jobs,         \* the queued _async_save tasks (of fired timers), not started yet
    writing,      \* the documents of the save_json jobs in flight
    store,        \* the durable store: << >> when absent, << doc >> otherwise
    fresh,        \* a fresh ConfigManager that async_load is run on
    issued,       \* the flow ids callers have received in an envelope
    direct,       \* number of direct async_schedule_save calls
    bursts,       \* history: number of bursts of async_schedule_save calls
    writes,       \* history: number of save_json writes started
    lastRan,      \* history: the save of the most recently armed timer has run
    last          \* the operation that ran last, and its outcome

vars == << entries, progress, _sched_save, instances, calls, armed, timers,
           jobs, writing, store, fresh, issued, direct, bursts, writes, lastRan, last >>

\* ------------------------------------------------------------ helpers
NoResult == [type |-> None]

\* The record of an operation: its arguments, what it resolved, its outcome.
Event(op) ==
    [op |-> op, domain |-> None, supplied |-> NoFlowId, flow_id |-> NoFlowId,
     inst |-> 0, created |-> FALSE, step_id |-> None, error |-> None,
     step |-> NoResult, result |-> NoResult]

\* ConfigEntry.__init__
ConfigEntry(config_id, version, domain, title, data, source) ==
    [config_id |-> config_id, version |-> version, domain |-> domain,
     title |-> title, data |-> data, source |-> source]

\* ConfigEntry.as_dict
as_dict(entry) ==
    [config_id |-> entry.config_id, version |-> entry.version,
     domain |-> entry.domain, title |-> entry.title, data |-> entry.data,
     source |-> entry.source]

\* ConfigFlowHandler.async_show_form
async_show_form(flow, title, step_id) ==
    [type |-> RESULT_TYPE_FORM, flow_id |-> flow.flow_id, title |-> title,
     step_id |-> step_id, description |-> None, data_schema |-> None,
     errors |-> None, total_steps |-> None]

\* ConfigFlowHandler.async_create_entry
async_create_entry(flow, title, data) ==
    [type |-> RESULT_TYPE_CREATE_ENTRY, flow_id |-> flow.flow_id,
     title |-> title, data |-> data]

\* ConfigFlowHandler.async_abort
async_abort(flow, reason) ==
    [type |-> RESULT_TYPE_ABORT, flow_id |-> flow.flow_id, reason |-> reason]

\* dict.pop(key) on a result envelope: the envelope without that key.
DictPop(d, key) == [k \in DOMAIN d \ {key} |-> d[k]]

\* (mutant) a lookup that falls back to a default handler class
HandlersGetDefault(domain) ==
    IF domain \in DOMAIN HANDLERS THEN HANDLERS[domain] ELSE "TestFlow"

\* HANDLERS.get(domain)
HandlersGet(domain) ==
    IF domain \in DOMAIN HANDLERS THEN HANDLERS[domain] ELSE None

\* flow = None; if flow_id is not None: flow = self.progress.get(flow_id)
\* (0 stands for "no instance")
ProgressGet(flow_id) ==
    IF flow_id # NoFlowId /\ flow_id \in DOMAIN progress
    THEN progress[flow_id] ELSE 0

\* hasattr(flow, "async_step_{}".format(step_id))
HasStep(flow, step_id) == step_id \in HandlerClasses[flow.cls].steps

\* The step operation of the modelled handlers, as the step of
\* test_configure_reuses_handler_instance: it counts the steps run on the
\* instance in handle_count (written when the step starts) and ignores its
\* input; its outcome is a form carrying that count, an entry whose data holds
\* the count, an abort, or an error.
StepResult(flow, c, outcome) ==
    IF outcome = RESULT_TYPE_FORM
    THEN async_show_form(flow, "title", c.seen)
    ELSE IF outcome = RESULT_TYPE_CREATE_ENTRY
    THEN async_create_entry(flow, HandlerClasses[flow.cls].title,
                            [steps |-> << c.seen >>])
    ELSE async_abort(flow, "reason")

\* flow.version, flow.source: class attributes read through the instance
Version(flow) == HandlerClasses[flow.cls].version
Source(flow) == HandlerClasses[flow.cls].source

\* (mutant) an id generator that gives every flow the same id
Uuid4Constant == NoFlowId + 1

\* uuid.uuid4().hex: an id no flow has had
Uuid4 == Len(instances) + 1

\* handler(); flow.domain = domain; flow.flow_id = flow_id
NewHandler(cls, domain, flow_id) ==
    [cls |-> cls, domain |-> domain, flow_id |-> flow_id, handle_count |-> 0]

\* (mutant) every call constructs a handler instance
MustCreateAlways(flow_id) == TRUE

\* `if flow is None`: the call constructs a handler instance
MustCreate(flow_id) == ProgressGet(flow_id) = 0

\* (mutant) UnknownStep raised after dropping every flow in progress
ProgressOnUnknownStepCleared(prog, flow_id) == [f \in {} |-> 0]

\* (mutant) UnknownStep raised without removing the flow
ProgressOnUnknownStepKept(prog, flow_id) == prog

\* the progress map when UnknownStep is raised: self.progress.pop(flow_id)
ProgressOnUnknownStep(prog, flow_id) == DictPop(prog, flow_id)

\* (mutant) the flow is dropped when its step raises
ProgressOnStepErrorDropped(c) == DictPop(progress, c.flow_id)

\* the progress map when the step raises: nothing catches the error
ProgressOnStepError(c) == progress

\* (mutant) a pop that tolerates a missing key
PopRaisesNever(prog, flow_id) == FALSE

\* self.progress.pop(flow_id) raises KeyError when the flow is not in the map
PopRaises(prog, flow_id) == flow_id \notin DOMAIN prog

\* (mutant) an entry put at the head of the list
EntriesPrepend(es, entry) == << entry >> \o es

\* self.entries.append(entry)
EntriesAppend(es, entry) == Append(es, entry)

\* Abort and Success results finish the flow
FinishesFlow(result) == result.type # RESULT_TYPE_FORM

\* number of steps dispatched so far
RECURSIVE SumCounts(_)
SumCounts(s) == IF s = << >> THEN 0 ELSE Head(s).handle_count + SumCounts(Tail(s))
Dispatched == SumCounts(instances)

\* (mutant) a snapshot that misses the entry appended last
AsDictsButLast(es) == [i \in 1..(Len(es) - 1) |-> as_dict(es[i])]

\* data = [entry.as_dict() for entry in self.entries]
AsDicts(es) == [i \in 1..Len(es) |-> as_dict(es[i])]

Init ==
    /\ entries = << >>
    /\ progress = [f \in {} |-> 0]
    /\ _sched_save = NoTimer
    /\ instances = << >>
    /\ calls = {}
    /\ armed = {}
    /\ timers = 0
    /\ jobs = << >>
    /\ writing = << >>
    /\ store = << >>
    /\ fresh = [called |-> FALSE, existed |-> FALSE, entries |-> {}, error |-> None]
    /\ issued = {}
    /\ direct = 0
    /\ bursts = 0
    /\ writes = 0
    /\ lastRan = TRUE
    /\ last = Event("init")

\* ConfigManager.async_schedule_save: cancel the stored handle (a no-op on a
\* handle that has fired), arm a new timer and store its handle.
CancelStored == IF _sched_save # NoTimer THEN armed \ {_sched_save} ELSE armed

async_schedule_save ==
    /\ armed' = CancelStored \cup {timers + 1}
    /\ timers' = timers + 1
    /\ _sched_save' = timers + 1
    /\ bursts' = IF lastRan THEN bursts + 1 ELSE bursts
    /\ lastRan' = FALSE

SaveUnchanged == UNCHANGED << _sched_save, armed, timers, bursts, lastRan >>

\* async_configure, lines 108-133: from the call to the dispatch of the step
ConfigureBegin(domain, flow_id, step_id, user_input) ==
    LET handler == HandlersGet(domain)
        created == MustCreate(flow_id)
        fid     == IF created THEN Uuid4 ELSE flow_id
        inst    == IF created THEN Len(instances) + 1 ELSE ProgressGet(flow_id)
        insts1  == IF created
                   THEN Append(instances, NewHandler(handler, domain, fid))
                   ELSE instances
        prog1   == IF created
                   THEN [f \in DOMAIN progress \cup {fid} |->
                            IF f = fid THEN inst ELSE progress[f]]
                   ELSE progress
        flow    == insts1[inst]
        ev      == [Event("configure") EXCEPT !.domain = domain,
                       !.supplied = flow_id]
        ev1     == [ev EXCEPT !.flow_id = fid, !.inst = inst,
                       !.created = created]
    IN  /\ UNCHANGED << entries, jobs, writing, store, fresh, issued, direct, writes >>
        /\ SaveUnchanged
        /\ IF handler = None
           THEN /\ last' = [ev EXCEPT !.error = "UnknownHandler"]
                /\ UNCHANGED << progress, instances, calls >>
           ELSE /\ created => Len(instances) < MaxFlows
                /\ IF ~HasStep(flow, step_id)
                   THEN /\ progress' = ProgressOnUnknownStep(prog1, fid)
                        /\ instances' = insts1
                        /\ last' = [ev1 EXCEPT !.error = "UnknownStep",
                                               !.step_id = step_id]
                        /\ UNCHANGED calls
                   ELSE /\ Cardinality(calls) < MaxPending
                        /\ Dispatched < MaxCalls
                        /\ progress' = prog1
                        /\ instances' = [insts1 EXCEPT ![inst].handle_count = @ + 1]
                        /\ calls' = calls \cup
                              {[domain |-> domain, flow_id |-> fid,
                                inst |-> inst, created |-> created,
                                seen |-> flow.handle_count + 1]}
                        /\ last' = [ev1 EXCEPT !.op = "dispatch",
                                               !.step_id = step_id]

\* async_configure, lines 133-153: the step's outcome and its interpretation
ConfigureResume(c, outcome) ==
    LET flow   == instances[c.inst]
        result == StepResult(flow, c, outcome)
        ev     == [Event("return") EXCEPT !.domain = c.domain,
                      !.flow_id = c.flow_id, !.inst = c.inst,
                      !.created = c.created]
    IN  /\ calls' = calls \ {c}
        /\ UNCHANGED << instances, jobs, writing, store, fresh, direct, writes >>
        /\ IF outcome = "raise"
           THEN /\ last' = [ev EXCEPT !.op = "raise", !.error = "StepError"]
                /\ progress' = ProgressOnStepError(c)
                /\ UNCHANGED << entries, issued >>
                /\ SaveUnchanged
           ELSE IF ~FinishesFlow(result)
           THEN /\ last' = [ev EXCEPT !.step = result, !.result = result]
                /\ issued' = issued \cup {result.flow_id}
                /\ UNCHANGED << entries, progress >>
                /\ SaveUnchanged
           ELSE IF PopRaises(progress, c.flow_id)
           THEN \* self.progress.pop(flow_id) raises KeyError
                /\ last' = [ev EXCEPT !.op = "raise", !.error = "KeyError",
                                      !.step = result]
                /\ UNCHANGED << entries, progress, issued >>
                /\ SaveUnchanged
           ELSE /\ progress' = DictPop(progress, c.flow_id)
                /\ issued' = issued \cup {result.flow_id}
                /\ IF result.type = RESULT_TYPE_ABORT
                   THEN /\ last' = [ev EXCEPT !.step = result, !.result = result]
                        /\ UNCHANGED entries
                        /\ SaveUnchanged
                   ELSE /\ entries' = EntriesAppend(entries,
                              ConfigEntry(flow.flow_id, Version(flow), c.domain,
                                          result.title, result.data, Source(flow)))
                        /\ async_schedule_save
                        /\ last' = [ev EXCEPT !.step = result,
                                              !.result = DictPop(result, "data")]

\* a direct call of the callback ConfigManager.async_schedule_save
ScheduleSave ==
    /\ direct < MaxSched
    /\ direct' = direct + 1
    /\ async_schedule_save
    /\ last' = Event("schedule_save")
    /\ UNCHANGED << entries, progress, instances, calls, jobs, writing, store,
                    fresh, issued, writes >>

\* the loop fires an armed timer: hass.async_add_job(self._async_save) queues
\* the save task.  All timers have the delay SAVE_DELAY, so they fire in the
\* order they were armed in; and a timer armed after a save task was queued
\* fires after that task has started (the loop runs what is ready before the
\* timers that come due later).  A queued task records the last timer armed
\* before it was queued.
TimerFire(t) ==
    /\ t \in armed
    /\ \A u \in armed : t <= u
    /\ \A k \in 1..Len(jobs) : t <= jobs[k].upto
    /\ armed' = armed \ {t}
    /\ jobs' = Append(jobs, [timer |-> t, upto |-> timers])
    /\ last' = Event("timer")
    /\ UNCHANGED << entries, progress, _sched_save, instances, calls, timers,
                    writing, store, fresh, issued, direct, bursts, writes, lastRan >>

\* ConfigManager._async_save up to its suspension point: clear the handle,
\* serialise the entries, hand the document to save_json
AsyncSaveStart ==
    /\ jobs # << >>
    /\ jobs' = Tail(jobs)
    /\ _sched_save' = NoTimer
    /\ writing' = Append(writing, AsDicts(entries))
    /\ writes' = writes + 1
    /\ lastRan' = (lastRan \/ Head(jobs).timer = timers)
    /\ last' = Event("save")
    /\ UNCHANGED << entries, progress, instances, calls, armed, timers, store,
                    fresh, issued, direct, bursts >>

\* a save_json job in the executor completes: the document replaces the store
SaveWrite(i) ==
    /\ i \in 1..Len(writing)
    /\ store' = << writing[i] >>
    /\ writing' = [k \in 1..(Len(writing) - 1) |->
                      IF k < i THEN writing[k] ELSE writing[k + 1]]
    /\ last' = Event("write")
    /\ UNCHANGED << entries, progress, _sched_save, instances, calls, armed,
                    timers, jobs, fresh, issued, direct, bursts, writes, lastRan >>

\* ConfigManager.async_load on a fresh manager (entries = None): the
\* `assert False` of line 158 raises before the store is looked at, so lines
\* 159-164 never run.
async_load ==
    /\ ~fresh.called
    /\ fresh' = [called |-> TRUE, existed |-> store # << >>,
                 entries |-> fresh.entries, error |-> "AssertionError"]
    /\ last' = Event("load")
    /\ UNCHANGED << entries, progress, _sched_save, instances, calls, armed,
                    timers, jobs, writing, store, issued, direct, bursts,
                    writes, lastRan >>

\* the flow ids a caller can pass: none, or one it received in an envelope (of
\* a flow in progress or of one that has ended)
SuppliedIds == {NoFlowId} \cup issued

\* The manager serving configuration flows: the calls of async_configure,
\* the timers and the save jobs they set off.
Next ==
    \/ \E d \in Domains, f \in SuppliedIds, s \in StepIds, u \in UserInputs :
          ConfigureBegin(d, f, s, u)
    \/ \E c \in calls, o \in Outcomes : ConfigureResume(c, o)
    \/ \E t \in armed : TimerFire(t)
    \/ AsyncSaveStart
    \/ \E i \in 1..Len(writing) : SaveWrite(i)

Spec == Init /\ [][Next]_vars

\* The persistence of an entry list: a manager holding any of the sample entry
\* lists, whose saves are requested through async_schedule_save, and a fresh
\* manager that loads what was written.
SampleEntries ==
    { ConfigEntry(1, 5, "test", "Test Title", [token |-> "abcd"], SOURCE_USER),
      ConfigEntry(2, 3, "test2", "Test 2 Title", [username |-> << "bla" >>],
                  SOURCE_DISCOVERY) }

EntryLists ==
    UNION { [1..n -> SampleEntries] : n \in 0..MaxEntries }

InitStore ==
    /\ entries \in EntryLists
    /\ progress = [f \in {} |-> 0]
    /\ _sched_save = NoTimer
    /\ instances = << >>
    /\ calls = {}
    /\ armed = {}
    /\ timers = 0
    /\ jobs = << >>
    /\ writing = << >>
    /\ store = << >>
    /\ fresh = [called |-> FALSE, existed |-> FALSE, entries |-> {}, error |-> None]
    /\ issued = {}
    /\ direct = 0
    /\ bursts = 0
    /\ writes = 0
    /\ lastRan = TRUE
    /\ last = Event("init")

NextStore ==
    \/ ScheduleSave
    \/ \E t \in armed : TimerFire(t)
    \/ AsyncSaveStart
    \/ \E i \in 1..Len(writing) : SaveWrite(i)
    \/ async_load

SpecStore == InitStore /\ [][NextStore]_vars

\* The event loop runs what is ready: a timer that is due fires, a queued
\* _async_save task starts, a save_json job handed to the executor completes.
\* Nothing obliges a caller to call async_configure or a step to resolve.
LoopFairness ==
    /\ WF_vars(\E t \in armed : TimerFire(t))
    /\ WF_vars(AsyncSaveStart)
    /\ WF_vars(\E i \in 1..Len(writing) : SaveWrite(i))

\* The manager committing entries: flows of the domain test whose init step
\* shows a form or creates the entry, and the timers and save jobs they set
\* off.  (The calls left out, those that fail or abort, touch neither the
\* entry list nor the timers.)
NextCommit ==
    \/ \E f \in SuppliedIds, u \in UserInputs :
          ConfigureBegin("test", f, "init", u)
    \/ \E c \in calls, o \in {RESULT_TYPE_FORM, RESULT_TYPE_CREATE_ENTRY} :
          ConfigureResume(c, o)
    \/ \E t \in armed : TimerFire(t)
    \/ AsyncSaveStart
    \/ \E i \in 1..Len(writing) : SaveWrite(i)

SpecFair == Init /\ [][NextCommit]_vars /\ LoopFairness

\* (mutant) a scan that does not remember the domains it has seen
NotSeenAlways(domain, seen) == TRUE

\* `if entry.domain not in seen`
NotSeen(domain, seen) == domain \notin seen

\* the loop of async_domains over the entries left, with its locals
RECURSIVE DomainsLoop(_, _, _)
DomainsLoop(es, seen, result) ==
    IF es = << >>
    THEN result
    ELSE IF NotSeen(Head(es).domain, seen)
         THEN DomainsLoop(Tail(es), seen \cup {Head(es).domain},
                          Append(result, Head(es).domain))
         ELSE DomainsLoop(Tail(es), seen, result)

\* ConfigManager.async_domains
async_domains == DomainsLoop(entries, {}, << >>)

\* (mutant) a filter that lets every entry through
MatchesAny(entry, domain) == TRUE

\* `if entry.domain == domain`
Matches(entry, domain) == entry.domain = domain

\* the list comprehension of async_entries over the entries left
RECURSIVE EntriesLoop(_, _)
EntriesLoop(es, domain) ==
    IF es = << >>
    THEN << >>
    ELSE IF Matches(Head(es), domain)
         THEN << Head(es) >> \o EntriesLoop(Tail(es), domain)
         ELSE EntriesLoop(Tail(es), domain)

\* ConfigManager.async_entries
async_entries(domain) == EntriesLoop(entries, domain)

\* everything a manager holds, and the loop and the store around it
ManagerState ==
    << entries, progress, _sched_save, instances, calls, armed, timers, jobs,
       writing, store, fresh, issued, direct, bursts, writes, lastRan >>

\* a call of async_domains
CallDomains ==
    /\ last' = [Event("domains") EXCEPT
                   !.result = [type |-> "list", value |-> async_domains]]
    /\ UNCHANGED ManagerState

\* a call of async_entries
CallEntries(domain) ==
    /\ last' = [Event("entries") EXCEPT !.domain = domain,
                   !.result = [type |-> "list", value |-> async_entries(domain)]]
    /\ UNCHANGED ManagerState

\* The queries on an entry list: a manager to which entries of the domains
\* test, test2 and test3 were added in any order (each entry has an id of its
\* own, here its position), asked for its domains and for the entries of a
\* domain.
QueryDomains == {"test", "test2", "test3"}

MockConfigEntry(config_id, domain) ==
    ConfigEntry(config_id, 0, domain, "Mock Title", None, SOURCE_USER)

DomainLists == UNION { [1..n -> QueryDomains] : n \in 0..MaxList }

InitQuery ==
    /\ \E ds \in DomainLists :
          entries = [i \in 1..Len(ds) |-> MockConfigEntry(i, ds[i])]
    /\ progress = [f \in {} |-> 0]
    /\ _sched_save = NoTimer
    /\ instances = << >>
    /\ calls = {}
    /\ armed = {}
    /\ timers = 0
    /\ jobs = << >>
    /\ writing = << >>
    /\ store = << >>
    /\ fresh = [called |-> FALSE, existed |-> FALSE, entries |-> {}, error |-> None]
    /\ issued = {}
    /\ direct = 0
    /\ bursts = 0
    /\ writes = 0
    /\ lastRan = TRUE
    /\ last = Event("init")

NextQuery ==
    \/ CallDomains
    \/ \E d \in QueryDomains : CallEntries(d)

SpecQuery == InitQuery /\ [][NextQuery]_vars

\* ------------------------------------------------------------ claims
InProgress(f) == f \in DOMAIN progress
Ended(type) == type \in {RESULT_TYPE_ABORT, RESULT_TYPE_CREATE_ENTRY}
SaveSame == /\ _sched_save' = _sched_save
            /\ armed' = armed
            /\ timers' = timers

\* C1: right after a configure call returns normally, a flow that ended by
\* abort or create_entry is absent from the progress map, and a flow that
\* returned a form is still in the map, mapped to the instance the call ran on.
C1_FlowEndsOrStays ==
    last.op = "return" =>
        IF Ended(last.result.type)
        THEN ~InProgress(last.flow_id)
        ELSE InProgress(last.flow_id) /\ progress[last.flow_id] = last.inst

\* C2: every configure call whose step returns create_entry appends exactly
\* one ConfigEntry to the end of the entry list, made of the flow's id, the
\* handler's version and source, the call's domain and the envelope's title
\* and data, and arms a save timer; a call whose step returns a form or an
\* abort appends nothing.
C2_CreateAppendsOneEntry ==
    [][ last'.op \in {"return", "raise"} =>
          IF last'.step.type = RESULT_TYPE_CREATE_ENTRY
          THEN /\ entries' = Append(entries,
                     ConfigEntry(last'.flow_id,
                                 Version(instances[last'.inst]), last'.domain,
                                 last'.step.title, last'.step.data,
                                 Source(instances[last'.inst])))
               /\ _sched_save' \in armed' \ armed
          ELSE entries' = entries ]_vars

\* C3: a flow id in the progress map maps to exactly one handler instance,
\* the one constructed for it; a call that passes the id of a flow in
\* progress constructs nothing and runs its step on that instance, reading
\* the private state the previous step left (handle_count) and writing its
\* successor; between steps the instance and its private state do not change.
C3_OneInstance ==
    /\ \A f \in DOMAIN progress :
          /\ progress[f] \in 1..Len(instances)
          /\ instances[progress[f]].flow_id = f
    /\ \A i, j \in 1..Len(instances) :
          instances[i].flow_id = instances[j].flow_id => i = j
    /\ \A c \in calls : instances[c.inst].flow_id = c.flow_id

C3_StepOnSameInstance ==
    /\ (last'.op = "dispatch" /\ InProgress(last'.supplied)) =>
          /\ last'.inst = progress[last'.supplied]
          /\ last'.flow_id = last'.supplied
          /\ Len(instances') = Len(instances)
          /\ progress' = progress
          /\ instances'[last'.inst].handle_count =
                instances[last'.inst].handle_count + 1
          /\ \E c \in calls' \ calls :
                /\ c.inst = last'.inst
                /\ c.seen = instances[last'.inst].handle_count + 1
    /\ \A f \in DOMAIN progress \cap DOMAIN progress' :
          /\ progress'[f] = progress[f]
          /\ instances'[progress[f]].handle_count
                  # instances[progress[f]].handle_count
                => (last'.op = "dispatch" /\ last'.flow_id = f)

\* C3: all steps of a flow in progress run on the one instance constructed
\* for it (C3_OneInstance in every state, C3_StepOnSameInstance in every step).
C3_SharedInstance == []C3_OneInstance /\ [][C3_StepOnSameInstance]_vars

\* a second step has run on the instance of a flow that stayed in progress
C3_Witness ==
    /\ last.op = "dispatch"
    /\ ~last.created
    /\ InProgress(last.flow_id)
    /\ instances[last.inst].handle_count = 2

\* every timer has fired and every save has been written
Quiescent == timers > 0 /\ armed = {} /\ jobs = << >> /\ writing = << >>

\* C4: the async_schedule_save calls of one burst (each made before the save
\* of the previously armed timer has run) lead to exactly one write: no more
\* writes are started than there are bursts, and once every timer has fired
\* and every save has been written, there is one write per burst and the
\* store holds the entry list as of the last call.
C4_OneWritePerBurst ==
    /\ writes <= bursts
    /\ Quiescent => (writes = bursts /\ store = << AsDicts(entries) >>)

\* C5: no two steps dispatched for the same flow id are pending at once.
C5_StepsSequential ==
    \A c1, c2 \in calls : c1.flow_id = c2.flow_id => c1 = c2

\* C6 (as stated): when the step raises, the error reaches the caller, no
\* save is scheduled, and the progress map and the entry list are as before
\* the call began: the failing call has added no flow, also when it is the
\* call that started the flow.
C6_NoTraceOfFailedCall ==
    [][ (last'.op = "raise" /\ last'.error = "StepError") =>
          /\ progress' = progress
          /\ entries' = entries
          /\ SaveSame
          /\ last'.created => last'.flow_id \notin DOMAIN progress' ]_vars

\* C6 (amended): when the step raises, the error reaches the caller and the
\* resumed call changes nothing: the progress map, the entry list and the save
\* timer are as they were when the step was dispatched by this call (the flow
\* is neither removed nor advanced).  The dispatch of a call that continues a
\* flow leaves the map and the list alone; the dispatch of a call that starts
\* a flow adds that flow, which is therefore still in the map after the error.
C6_FailedStepLeavesFlow ==
    [][ /\ (last'.op = "raise" /\ last'.error = "StepError") =>
              /\ progress' = progress
              /\ entries' = entries
              /\ SaveSame
              /\ last'.created =>
                    /\ last'.flow_id \in DOMAIN progress'
                    /\ progress'[last'.flow_id] = last'.inst
        /\ last'.op = "dispatch" =>
              /\ entries' = entries
              /\ SaveSame
              /\ IF last'.created
                 THEN /\ ~InProgress(last'.flow_id)
                      /\ progress' = [f \in DOMAIN progress \cup {last'.flow_id} |->
                            IF f = last'.flow_id THEN last'.inst ELSE progress[f]]
                 ELSE progress' = progress ]_vars

\* the step of the call that started a flow has raised
C6_Witness ==
    /\ last.op = "raise"
    /\ last.error = "StepError"
    /\ last.created
    /\ InProgress(last.flow_id)

\* C7: a configure call for a domain without a registered handler fails with
\* UnknownHandler, whatever flow id it passes, and changes neither the entry
\* list, the progress map nor the save timer; it constructs no handler and
\* dispatches no step.
C7_UnknownHandler ==
    [][ (last'.op \in {"configure", "dispatch"}
           /\ last'.domain \notin DOMAIN HANDLERS) =>
          /\ last'.op = "configure"
          /\ last'.error = "UnknownHandler"
          /\ entries' = entries
          /\ progress' = progress
          /\ SaveSame
          /\ instances' = instances
          /\ calls' = calls ]_vars

\* an unregistered domain was configured with the id of a flow in progress
C7_Witness ==
    /\ last.op = "configure"
    /\ last.error = "UnknownHandler"
    /\ InProgress(last.supplied)

\* C8: a configure call whose step the resolved handler does not have fails
\* with UnknownStep; afterwards its flow id is not in the progress map
\* (whether the call created the flow or found it in progress), the entry
\* list and the save timer are unchanged and no step has run.
C8_UnknownStep ==
    [][ (last'.op \in {"configure", "dispatch"}
           /\ last'.inst # 0
           /\ ~HasStep(instances'[last'.inst], last'.step_id)) =>
          /\ last'.op = "configure"
          /\ last'.error = "UnknownStep"
          /\ last'.flow_id \notin DOMAIN progress'
          /\ \A f \in DOMAIN progress \ {last'.flow_id} :
                f \in DOMAIN progress' /\ progress'[f] = progress[f]
          /\ entries' = entries
          /\ SaveSame
          /\ calls' = calls
          /\ \A i \in 1..Len(instances) : instances'[i] = instances[i] ]_vars

\* UnknownStep was raised for a flow that was in progress with a step pending
C8_Witness ==
    /\ last.op = "configure"
    /\ last.error = "UnknownStep"
    /\ ~last.created
    /\ ~InProgress(last.flow_id)
    /\ \E c \in calls : c.flow_id = last.flow_id

\* C9: after save and then load on a fresh manager over the written document,
\* the fresh manager holds the same entry list, field by field and in order.
C9_RoundTrip ==
    (fresh.called /\ fresh.existed) =>
        /\ fresh.error = None
        /\ fresh.entries = {entries}

\* C10: load on a manager whose store does not exist yet completes without
\* error and leaves the empty entry list.
C10_LoadMissingStore ==
    (fresh.called /\ ~fresh.existed) =>
        /\ fresh.error = None
        /\ fresh.entries = {<< >>}

\* C11: when a flow completes with create_entry, the envelope configure
\* returns to the caller is the create_entry envelope of the step: it carries
\* the flow id, the title and a data field equal to the data the handler
\* supplied, which is also the data of the entry just committed.
C11_EnvelopeCarriesData ==
    (last.op = "return" /\ last.step.type = RESULT_TYPE_CREATE_ENTRY) =>
        /\ last.result.type = RESULT_TYPE_CREATE_ENTRY
        /\ last.result.flow_id = last.flow_id
        /\ last.result.title = last.step.title
        /\ "data" \in DOMAIN last.result
        /\ last.result.data = last.step.data
        /\ entries # << >>
        /\ entries[Len(entries)].data = last.step.data

\* C12: calls on different flow ids may interleave at their suspension
\* points.  A step of any operation leaves every flow other than the one it
\* acts on in the progress map, on its instance, with its private state and
\* its pending calls (so a flow whose step never resolves stays in the map);
\* and a call on another flow completes with the envelope of its own step and
\* the effect of that envelope on its own flow and on the entry list only.
C12_OtherFlowsUntouched ==
    [][ /\ \A f \in DOMAIN progress : f # last'.flow_id =>
              /\ f \in DOMAIN progress'
              /\ progress'[f] = progress[f]
              /\ instances'[progress[f]] = instances[progress[f]]
        /\ \A c \in calls : c.flow_id # last'.flow_id => c \in calls'
        /\ last'.op = "return" =>
              /\ last'.step.flow_id = last'.flow_id
              /\ last'.result.flow_id = last'.flow_id
              /\ last'.result.type = last'.step.type
              /\ progress' = IF last'.step.type = RESULT_TYPE_FORM
                             THEN progress
                             ELSE DictPop(progress, last'.flow_id)
              /\ IF last'.step.type = RESULT_TYPE_CREATE_ENTRY
                 THEN /\ Len(entries') = Len(entries) + 1
                      /\ SubSeq(entries', 1, Len(entries)) = entries
                      /\ entries'[Len(entries')].config_id = last'.flow_id
                      /\ entries'[Len(entries')].data = last'.step.data
                 ELSE entries' = entries ]_vars

\* a flow completed with create_entry, in two steps, while the step of
\* another flow was (and is) pending
C12_Witness ==
    /\ last.op = "return"
    /\ last.result.type = RESULT_TYPE_CREATE_ENTRY
    /\ ~last.created
    /\ \E c \in calls : c.flow_id # last.flow_id /\ InProgress(c.flow_id)

\* the domains of the entries, in the order of the entry list
EntryDomains == [i \in 1..Len(entries) |-> entries[i].domain]

\* the position of the first entry of a domain that has one
FirstEntry(d) ==
    CHOOSE i \in 1..Len(entries) :
        /\ entries[i].domain = d
        /\ \A j \in 1..(i - 1) : entries[j].domain # d

\* C13: for every entry list, async_domains returns a sequence that holds
\* each domain owning at least one entry exactly once and no other domain,
\* ordered by the position of each domain's first entry; the call changes no
\* state.
C13_DomainsOnceFirstSeen ==
    [][ last'.op = "domains" =>
          LET r == last'.result.value
          IN  /\ \A d \in QueryDomains :
                    (\E i \in 1..Len(entries) : entries[i].domain = d)
                        <=> (\E k \in 1..Len(r) : r[k] = d)
              /\ \A k \in 1..Len(r) :
                    \E i \in 1..Len(entries) : entries[i].domain = r[k]
              /\ \A k, l \in 1..Len(r) : r[k] = r[l] => k = l
              /\ \A k, l \in 1..Len(r) :
                    k < l => FirstEntry(r[k]) < FirstEntry(r[l])
              /\ UNCHANGED ManagerState ]_vars

\* the entries were added in the domains [A, B, B, A, C]: the answer is
\* [A, B, C]
C13_Witness ==
    /\ last.op = "domains"
    /\ EntryDomains = << "test", "test2", "test2", "test", "test3" >>
    /\ last.result.value = << "test", "test2", "test3" >>

\* C14: for every entry list and every domain d, async_entries(d) returns
\* exactly the entries whose domain is d, each once and in the order they have
\* in the entry list, and the empty sequence when no entry has domain d; the
\* call changes no state.
C14_EntriesOfDomainInOrder ==
    [][ last'.op = "entries" =>
          LET r == last'.result.value
              d == last'.domain
              Owned == { i \in 1..Len(entries) : entries[i].domain = d }
          IN  /\ Len(r) = Cardinality(Owned)
              /\ \A k \in 1..Len(r) :
                    /\ r[k].config_id \in Owned
                    /\ r[k] = entries[r[k].config_id]
              /\ \A k, l \in 1..Len(r) :
                    k < l => r[k].config_id < r[l].config_id
              /\ (Owned = {}) => r = << >>
              /\ UNCHANGED ManagerState ]_vars

\* two entries of the domain asked for, with an entry of another domain
\* between them and one before them
C14_Witness ==
    /\ last.op = "entries"
    /\ Len(last.result.value) = 2
    /\ last.result.value[1].config_id > 1
    /\ last.result.value[1].config_id + 1 < last.result.value[2].config_id

\* async_entries was asked for a domain that owns no entry of a non-empty list
C14_WitnessNone ==
    /\ last.op = "entries"
    /\ entries # << >>
    /\ last.result.value = << >>

\* C15: a configure call for a registered domain that passes no flow id, or
\* an id that is not in the progress map (such as the id of a flow that has
\* ended), constructs a fresh handler instance of the domain's class under a
\* new flow id, different from the id passed and from the id of every earlier
\* flow; the instances of earlier flows are not touched; when the step is
\* dispatched the new flow is in the progress map and the step runs on the
\* fresh instance; the envelope the call returns carries the new flow id.
C15_FreshFlowForUnknownId ==
    [][ /\ (/\ last'.op \in {"configure", "dispatch"}
            /\ last'.domain \in DOMAIN HANDLERS
            /\ ~InProgress(last'.supplied)) =>
              /\ last'.created
              /\ last'.flow_id # NoFlowId
              /\ last'.flow_id # last'.supplied
              /\ \A i \in 1..Len(instances) :
                    /\ instances[i].flow_id # last'.flow_id
                    /\ instances'[i] = instances[i]
              /\ Len(instances') = Len(instances) + 1
              /\ last'.inst = Len(instances')
              /\ instances'[last'.inst].cls = HANDLERS[last'.domain]
              /\ instances'[last'.inst].domain = last'.domain
              /\ instances'[last'.inst].flow_id = last'.flow_id
              /\ IF last'.op = "dispatch"
                 THEN /\ last'.flow_id \in DOMAIN progress'
                      /\ progress'[last'.flow_id] = last'.inst
                      /\ instances'[last'.inst].handle_count = 1
                      /\ \E c \in calls' \ calls :
                            /\ c.flow_id = last'.flow_id
                            /\ c.inst = last'.inst
                            /\ c.seen = 1
                 ELSE /\ last'.error = "UnknownStep"
                      /\ instances'[last'.inst].handle_count = 0
        /\ (last'.op = "return" /\ last'.created) =>
              /\ last'.result.flow_id = last'.flow_id
              /\ last'.flow_id \notin issued ]_vars

\* a call passed the id of a flow that ended by create_entry, and its step
\* was dispatched on a new flow
C15_Witness ==
    /\ last.op = "dispatch"
    /\ last.created
    /\ last.supplied # NoFlowId
    /\ \E i \in 1..Len(entries) : entries[i].config_id = last.supplied

\* the durable store holds the n-th entry of the entry list
Stored(n) ==
    /\ store # << >>
    /\ Len(store[1]) >= n
    /\ store[1][n] = as_dict(entries[n])

\* a configure call has just appended the n-th entry
Appended(n) ==
    /\ last.op = "return"
    /\ last.step.type = RESULT_TYPE_CREATE_ENTRY
    /\ Len(entries) = n

\* C16: every entry appended to the entry list is eventually contained in a
\* durable write (a later state has it in the store), whether it was appended
\* before any save, after a save started or while a write was in flight,
\* given that the loop fires due timers, starts queued save tasks and
\* completes writes.
C16_EntryEventuallyWritten ==
    \A n \in 1..MaxFlows : Appended(n) ~> Stored(n)

\* the second entry was appended after a save had started and while its write
\* was in flight; a later save has written it
C16_Witness ==
    /\ Len(entries) = 2
    /\ writes = 2
    /\ Stored(2)
    /\ writing # << >>
    /\ Len(writing[1]) = 1

\* C17: in every reachable state at most one save timer is armed (not fired,
\* not cancelled), for every interleaving of async_schedule_save calls, timer
\* firings and starts of the save job.
C17_OneArmedTimer == Cardinality(armed) <= 1

\* C18: no two entries of the entry list have the same id: a flow id commits
\* at most one entry, also when several calls for it are in flight at once
\* and more than one of their steps returns create_entry.
C18_UniqueEntryIds ==
    \A i, j \in 1..Len(entries) :
        entries[i].config_id = entries[j].config_id => i = j

\* a second step of a flow returned create_entry after the flow had committed
\* its entry
C18_Witness ==
    /\ last.op = "raise"
    /\ last.error = "KeyError"
    /\ last.step.type = RESULT_TYPE_CREATE_ENTRY
    /\ \E i \in 1..Len(entries) : entries[i].config_id = last.flow_id

\* C19: every committed entry has the domain under which its flow was
\* created (the domain recorded on the handler instance), and every handler
\* instance, on which the steps of its flow run, is of the class registered
\* for that domain, also after calls that pass the id of a flow in progress
\* together with another registered domain.
C19_EntryDomainIsFlowDomain ==
    /\ \A k \in 1..Len(instances) :
          instances[k].cls = HANDLERS[instances[k].domain]
    /\ \A c \in calls : instances[c.inst].flow_id = c.flow_id
    /\ \A i \in 1..Len(entries) :
          \E k \in 1..Len(instances) :
              /\ instances[k].flow_id = entries[i].config_id
              /\ instances[k].domain = entries[i].domain

\* C20: the entry list is append-only: across every step the previous list
\* is a prefix of the next one (no entry is removed, moved or changed); a
\* timer firing, a save job, a write and a request for a save leave the entry
\* list and the progress map as they are.
C20_EntriesAppendOnly ==
    [][ /\ Len(entries') >= Len(entries)
        /\ \A i \in 1..Len(entries) : entries'[i] = entries[i]
        /\ last'.op \in {"timer", "save", "write", "schedule_save"} =>
              /\ entries' = entries
              /\ progress' = progress
        /\ timers' # timers =>
              /\ SubSeq(entries', 1, Len(entries)) = entries
              /\ \A f \in DOMAIN progress' :
                    f \in DOMAIN progress /\ progress'[f] = progress[f] ]_vars

\* two entries were appended and the save job has serialised both
C20_Witness ==
    /\ last.op = "save"
    /\ Len(entries) = 2
    /\ writing # << >>
    /\ writing[Len(writing)] = AsDicts(entries)

====
